---- MODULE Spec2Model ----
\* Model of the mermaid-to-svg worker (src/src/index.ts, the handler with cache
\* statistics, lines 96-273): the fetch handler run as concurrent tasks over the
\* edge cache (caches.default), the CACHE_STATS KV namespace and the browser
\* rendering binding.
EXTENDS Integers, Sequences, FiniteSets, TLC

\* ---------------------------------------------------------------- bounds
NReq == 2          \* requests served in one behaviour, each by its own invocation
MaxKeys == 73      \* most entries the Cache Store is given for the listing endpoint
MaxCount == 45     \* largest counter the Stats Store is given for the stats endpoint

\* ---------------------------------------------------------------- strings
\* A string is a sequence of one-character strings.
StartsWith(s, p) == Len(s) >= Len(p) /\ SubSeq(s, 1, Len(p)) = p

Undefined == <<"undefined">>      \* the value `undefined` of an untyped result
SvgTag == <<"<", "s", "v", "g">>
Falsy(s) == s = <<>> \/ s = Undefined

\* ---------------------------------------------------------------- URLs
\* A URL is its pathname and its query, a sequence of <<name, value>> pairs in
\* the order written.  The request's url string is this value verbatim.
Url(path, query) == [path |-> path, query |-> query]

\* URLSearchParams.get: the first value of the name, <<>> (null) when absent.
RECURSIVE SearchParamsGet(_, _)
SearchParamsGet(query, name) ==
    IF query = <<>> THEN <<>>
    ELSE IF Head(query)[1] = name THEN <<Head(query)[2]>>
    ELSE SearchParamsGet(Tail(query), name)

\* lz-string decompressFromEncodedURIComponent over the encoded payloads the
\* model sends: two encoded diagrams, the encoding of the empty text, and an
\* input that is no encoding at all (null).
Decompress(c) ==
    CASE c = "cA" -> <<<<"A">>>>
      [] c = "cB" -> <<<<"B">>>>
      [] c = "cEmpty" -> <<<<>>>>
      [] OTHER -> <<>>

\* Decode without the check of line 212.
DecodeUnchecked(u) ==
    LET compressed == SearchParamsGet(u.query, "mermaid") IN
    IF compressed = <<>> \/ compressed[1] = ""
    THEN [err |-> "missing", text |-> <<>>]
    ELSE LET mermaidString == Decompress(compressed[1]) IN
         [err |-> "none",
          text |-> IF mermaidString = <<>> THEN <<>> ELSE mermaidString[1]]

\* Lines 206-214: the decode step.  "missing", "invalid" or the diagram text.
Decode(u) ==
    LET compressed == SearchParamsGet(u.query, "mermaid") IN
    IF compressed = <<>> \/ compressed[1] = ""
    THEN [err |-> "missing", text |-> <<>>]
    ELSE LET mermaidString == Decompress(compressed[1]) IN
         IF mermaidString = <<>> \/ mermaidString[1] = <<>>
         THEN [err |-> "invalid", text |-> <<>>]
         ELSE [err |-> "none", text |-> mermaidString[1]]

\* Line 231.
Theme(u) ==
    IF SearchParamsGet(u.query, "theme") = <<"dark">> THEN "dark" ELSE "default"

uA       == Url("/svg", << <<"mermaid", "cA">> >>)
uMissing == Url("/svg", << <<"theme", "dark">> >>)
uInvalid == Url("/svg", << <<"mermaid", "bad">> >>)
uStats   == Url("/cache-stats", <<>>)
uReset   == Url("/cache-stats/reset", <<>>)
uEntries == Url("/cache-entries", <<>>)
uOther   == Url("/", <<>>)
Urls == {uA, uMissing, uInvalid, uStats, uReset, uEntries, uOther}

\* ---------------------------------------------------------------- renderer
\* window.mermaid.render(`ms-${Math.random()...}`, mermaidString): the markup
\* carries the random element id, the diagram and the theme.
RandomIds == {"0", "1"}
MermaidRender(id, text, theme) ==
    SvgTag \o <<" ", id>> \o text \o <<IF theme = "dark" THEN "d" ELSE "l">>

\* What page.evaluate can resolve to: the markup, or a value that is not one.
EvaluateResults(text, theme) ==
    {MermaidRender(id, text, theme) : id \in RandomIds}
        \cup {Undefined, <<>>, <<"<", "s", "v">>}

\* Line 256 without the startsWith test.
IsSvgLax(svg) == ~Falsy(svg)

IsSvg(svg) == ~Falsy(svg) /\ StartsWith(svg, SvgTag)          \* line 256, negated

\* ---------------------------------------------------------------- responses
Headers(ct, cc) == [contentType |-> ct, cacheControl |-> cc]
TextResponse(text, status) ==
    [status |-> status, body |-> <<text>>, headers |-> Headers("text/plain", "")]
JsonResponse(value) ==
    [status |-> 200, body |-> <<value>>, headers |-> Headers("application/json", "")]
\* Lines 260-265.
SvgResponse(svg) ==
    [status |-> 200, body |-> svg,
     headers |-> Headers("image/svg+xml", "public, max-age=31536000")]
\* An exception that leaves fetch: the runtime answers with its error page.
UncaughtResponse == TextResponse("Worker threw exception", 500)
NoResponse == [status |-> 0, body |-> <<>>, headers |-> Headers("", "")]

\* ---------------------------------------------------------------- Cache Store
\* caches.default: the entries in insertion order, each the request key (url,
\* method) and the stored response.
CacheKey(u) == [url |-> u, method |-> "GET"]

\* An index by what the url decodes to: the path, the diagram and the theme.
RECURSIVE CacheIndexByDiagram(_, _)
CacheIndexByDiagram(c, u) ==
    LET v == c[Len(c)].key.url IN
    IF c = <<>> THEN 0
    ELSE IF /\ u.path = v.path
            /\ SearchParamsGet(u.query, "mermaid") = SearchParamsGet(v.query, "mermaid")
            /\ (SearchParamsGet(u.query, "theme") = <<"dark">>)
                  = (SearchParamsGet(v.query, "theme") = <<"dark">>)
         THEN Len(c)
    ELSE CacheIndexByDiagram(SubSeq(c, 1, Len(c) - 1), u)

RECURSIVE CacheIndex(_, _)
CacheIndex(c, u) ==
    IF c = <<>> THEN 0
    ELSE IF c[Len(c)].key.url = u THEN Len(c)
    ELSE CacheIndex(SubSeq(c, 1, Len(c) - 1), u)

\* A lookup under a key no put has used.
CacheMatchNever(c, u) == <<>>

\* cache.match(request.url): <<>> (undefined) or the stored response.
CacheMatch(c, u) ==
    IF CacheIndex(c, u) = 0 THEN <<>> ELSE <<c[CacheIndex(c, u)].response>>

\* A put that is dropped.
CachePutDropped(c, u, response) == c

\* cache.put(request, response): replaces the entry of the same key.
CachePut(c, u, response) ==
    LET i == CacheIndex(c, u)
        rest == IF i = 0 THEN c
                ELSE SubSeq(c, 1, i - 1) \o SubSeq(c, i + 1, Len(c))
    IN Append(rest, [key |-> CacheKey(u), response |-> response])

\* cache.keys()
CacheKeys(c) == [i \in 1..Len(c) |-> c[i].key]

\* ---------------------------------------------------------------- Stats Store
\* The value under 'stats' is JSON text: the members in the order written.
JsonStringify(stats) ==
    << <<"hits", stats.hits>>, <<"misses", stats.misses>>,
       <<"lastReset", stats.lastReset>> >>

RECURSIVE JsonMember(_, _)
JsonMember(json, name) ==
    IF Head(json)[1] = name THEN Head(json)[2] ELSE JsonMember(Tail(json), name)

JsonParse(json) ==
    [hits |-> JsonMember(json, "hits"), misses |-> JsonMember(json, "misses"),
     lastReset |-> JsonMember(json, "lastReset")]

\* Lines 132-138, given what CACHE_STATS.get resolved to (<<>> is null) and the
\* reading of the clock.
getCacheStats(stored, now) ==
    IF stored = <<>> THEN [hits |-> 0, misses |-> 0, lastReset |-> now]
    ELSE JsonParse(stored[1])

\* A hit that bumps both counters.
IncrementHitsBoth(stats) == [stats EXCEPT !.hits = @ + 1, !.misses = @ + 1]

\* A miss counted twice.
IncrementMissesTwice(stats) == [stats EXCEPT !.misses = @ + 2]

\* Lines 142 and 148: stats.hits++ / stats.misses++.
IncrementHits(stats) == [stats EXCEPT !.hits = @ + 1]
IncrementMisses(stats) == [stats EXCEPT !.misses = @ + 1]

\* A reset that zeroes the hits alone.
ResetStatsHitsOnly(now) == [hits |-> 0, misses |-> 1, lastReset |-> now]

\* Line 153.
ResetStats(now) == [hits |-> 0, misses |-> 0, lastReset |-> now]

\* ---------------------------------------------------------------- state
Slots == 1..NReq

VARIABLES
    pc,        \* per slot: the await the invocation is suspended at
    url,       \* per slot: request.url
    loc,       \* per slot: the handler's local variables
    resp,      \* per slot: the Response the invocation returned
    cache,     \* caches.default
    kv,        \* CACHE_STATS: <<>> or <<the JSON text under 'stats'>>
    clock,     \* the number of Date readings taken; a reading is its number
    pending,   \* cache.put promises handed to ctx.waitUntil, not yet settled
    tr,        \* per slot, history: what the invocation has done so far
    hist       \* history of the two stores

vars == <<pc, url, loc, resp, cache, kv, clock, pending, tr, hist>>

NoLocals ==
    [kind |-> "none", response |-> <<>>, stats |-> <<>>, text |-> <<>>,
     theme |-> "default"]

\* ops: the store and renderer calls issued, in order.  found: what the Cache
\* Store held under the url when cache.match resolved.  seen: what the pending
\* counter update read, <<v>> with v what CACHE_STATS.get resolved to.
\* counted: its counter update stored the counter one above the one it read.
\* session: the browser session it launched.  end: how it ended.  later: a
\* render of this url had returned its artifact when the request arrived.
NoTrace ==
    [ops |-> <<>>, found |-> {}, seen |-> <<>>, counted |-> FALSE,
     session |-> "none", end |-> "none", later |-> FALSE]

\* rendered: the urls a render has returned an artifact for.
\* written: per Date reading T, the counter updates written with lastReset T.
\* lastTwo: the last two writes to CACHE_STATS, latest first: reset or counter
\* update (hit, miss), and what the update had read.
\* afterReset: "armed" once a reset has landed; "written" once the next counter
\* update has been written, with the hits + misses it stored (sum) and whether
\* it had read the record of that reset (fresh).
\* writtenHits: per Date reading T, the hit updates among written[T].
\* sinceReset: the Date reading T of the latest reset (0: none yet) and the hit
\* and miss updates started, by the call of line 221 or 227, after it.
InitHist ==
    [rendered |-> {}, written |-> <<>>, lastTwo |-> <<>>,
     afterReset |-> [state |-> "none", fresh |-> FALSE, sum |-> 0],
     writtenHits |-> <<>>,
     sinceReset |-> [T |-> 0, hit |-> 0, miss |-> 0]]

\* The two stores outlive the invocations: a behaviour starts with each of
\* them empty, or as earlier traffic left it: the cache holding a render of uA,
\* the stats record holding the one miss counted at the first Date reading.
WarmCache ==
    <<[key |-> CacheKey(uA),
       response |-> SvgResponse(MermaidRender("0", Decode(uA).text, Theme(uA)))]>>
WarmStats == [hits |-> 0, misses |-> 1, lastReset |-> 1]

Init ==
    /\ pc = [r \in Slots |-> "idle"]
    /\ url = [r \in Slots |-> uOther]
    /\ loc = [r \in Slots |-> NoLocals]
    /\ resp = [r \in Slots |-> NoResponse]
    /\ pending = {}
    /\ tr = [r \in Slots |-> NoTrace]
    /\ \E warmCache, warmStats \in BOOLEAN :
          /\ cache = IF warmCache THEN WarmCache ELSE <<>>
          /\ kv = IF warmStats THEN <<JsonStringify(WarmStats)>> ELSE <<>>
          /\ clock = IF warmStats THEN 1 ELSE 0
          /\ hist = [InitHist EXCEPT
                        !.rendered = IF warmCache THEN {uA} ELSE {},
                        !.written = IF warmStats THEN <<1>> ELSE <<>>,
                        !.writtenHits = IF warmStats THEN <<0>> ELSE <<>>]

\* The invocation in slot r returns response.
Return(r, response) ==
    /\ pc' = [pc EXCEPT ![r] = "done"]
    /\ resp' = [resp EXCEPT ![r] = response]
    /\ loc' = [loc EXCEPT ![r] = NoLocals]

\* new Date(): the clock is read.
Tick(h) == [h EXCEPT !.written = Append(@, 0), !.writtenHits = Append(@, 0)]

StatsWrite(h, kind, seen) ==
    [h EXCEPT !.lastTwo = <<[kind |-> kind, seen |-> seen]>>
                             \o (IF @ = <<>> THEN <<>> ELSE <<@[1]>>)]

\* The awaits outside the try block: a rejection there leaves fetch.
AwaitsOutsideTry == {"statsGet", "resetPut", "keys", "match", "incGet", "incPut"}

\* ---------------------------------------------------------------- fetch
\* Lines 158-217: a request arrives and the handler runs to its first await.
\* Routing that sends every /svg request to the lookup, decoded or not.
RouteLookupFirst(u) ==
    CASE u.path = "/cache-stats" -> "statsGet"
      [] u.path = "/cache-stats/reset" -> "resetPut"
      [] u.path = "/cache-entries" -> "keys"
      [] u.path \notin {"/cache-stats", "/cache-stats/reset", "/cache-entries"}
            /\ u.path # "/svg" -> "notFound"
      [] u.path = "/svg" -> "match"

Route(u) ==
    CASE u.path = "/cache-stats" -> "statsGet"
      [] u.path = "/cache-stats/reset" -> "resetPut"
      [] u.path = "/cache-entries" -> "keys"
      [] u.path \notin {"/cache-stats", "/cache-stats/reset", "/cache-entries"}
            /\ u.path # "/svg" -> "notFound"
      [] u.path = "/svg" /\ Decode(u).err # "none" -> Decode(u).err
      [] u.path = "/svg" /\ Decode(u).err = "none" -> "match"

Fetch(r, u) ==
    /\ pc[r] = "idle"
    /\ \A q \in Slots : q < r => pc[q] # "idle"      \* slots are interchangeable
    /\ url' = [url EXCEPT ![r] = u]
    /\ UNCHANGED <<cache, kv, pending>>
    /\ LET t == [NoTrace EXCEPT !.later = u \in hist.rendered] IN
       CASE Route(u) = "statsGet" ->
              /\ pc' = [pc EXCEPT ![r] = "statsGet"]
              /\ tr' = [tr EXCEPT ![r] = [t EXCEPT !.ops = <<"kv.get">>]]
              /\ UNCHANGED <<loc, resp, clock, hist>>
         [] Route(u) = "resetPut" ->
              /\ pc' = [pc EXCEPT ![r] = "resetPut"]
              /\ clock' = clock + 1
              /\ hist' = [Tick(hist) EXCEPT
                             !.sinceReset = [T |-> clock', hit |-> 0, miss |-> 0]]
              /\ loc' = [loc EXCEPT ![r].stats = <<ResetStats(clock')>>]
              /\ tr' = [tr EXCEPT ![r] = [t EXCEPT !.ops = <<"kv.put">>]]
              /\ UNCHANGED resp
         [] Route(u) = "keys" ->
              /\ pc' = [pc EXCEPT ![r] = "keys"]
              /\ tr' = [tr EXCEPT ![r] = [t EXCEPT !.ops = <<"cache.keys">>]]
              /\ UNCHANGED <<loc, resp, clock, hist>>
         [] Route(u) = "notFound" ->
              /\ Return(r, TextResponse("Not found", 404))
              /\ tr' = [tr EXCEPT ![r] = [t EXCEPT !.end = "notFound"]]
              /\ UNCHANGED <<clock, hist>>
         [] Route(u) = "missing" ->
              /\ Return(r, TextResponse("Missing mermaid parameter", 400))
              /\ tr' = [tr EXCEPT ![r] = [t EXCEPT !.end = "decode"]]
              /\ UNCHANGED <<clock, hist>>
         [] Route(u) = "invalid" ->
              /\ Return(r, TextResponse("Failed to decompress mermaid parameter", 400))
              /\ tr' = [tr EXCEPT ![r] = [t EXCEPT !.end = "decode"]]
              /\ UNCHANGED <<clock, hist>>
         [] Route(u) = "match" ->
              /\ pc' = [pc EXCEPT ![r] = "match"]
              /\ loc' = [loc EXCEPT ![r].text = Decode(u).text]
              /\ tr' = [tr EXCEPT ![r] = [t EXCEPT !.ops = <<"cache.match">>]]
              /\ UNCHANGED <<resp, clock, hist>>

\* Number to string, as template literals and toFixed write a non-negative
\* integer: its decimal digits, most significant first.
Digit(d) ==
    CASE d = 0 -> "0" [] d = 1 -> "1" [] d = 2 -> "2" [] d = 3 -> "3"
      [] d = 4 -> "4" [] d = 5 -> "5" [] d = 6 -> "6" [] d = 7 -> "7"
      [] d = 8 -> "8" [] d = 9 -> "9"

RECURSIVE Digits(_)
Digits(n) == IF n < 10 THEN <<Digit(n)>> ELSE Append(Digits(n \div 10), Digit(n % 10))

\* toFixed(2) that cuts the digits after the second decimal.
ToFixed2Truncating(num, den) ==
    LET n == (num * 100) \div den
    IN Digits(n \div 100) \o <<".", Digit((n \div 10) % 10), Digit(n % 10)>>

\* Line 165: (num / den).toFixed(2) for num >= 0, den > 0: the n for which
\* n / 100 is nearest the quotient, the larger n on a tie, written with two
\* decimals.  The double that num / den * 100 evaluates to lies on the same side
\* of every tie as the exact quotient for the counts of this model (a tie needs
\* a quotient j / 32 * 100, which doubles hold exactly).
ToFixed2(num, den) ==
    LET n == (2 * num * 100 + den) \div (2 * den)
    IN Digits(n \div 100) \o <<".", Digit((n \div 10) % 10), Digit(n % 10)>>

\* Lines 164-172: the body of /cache-stats.
StatsView(stats) ==
    LET total == stats.hits + stats.misses
        hitRate == IF total > 0 THEN ToFixed2(stats.hits * 100, total)
                   ELSE <<"0", ".", "0", "0">>
    IN [hits |-> stats.hits, misses |-> stats.misses,
        lastReset |-> stats.lastReset,
        total |-> total,
        hitRate |-> hitRate \o <<"%">>,
        efficiency |-> IF total > 0
                       THEN Digits(stats.hits) \o <<"/">> \o Digits(total)
                            \o <<" requests served from cache">>
                       ELSE <<"No requests yet">>]

\* A stats view that persists the record it made up.
CacheStatsGetPersisting(r) ==
    /\ pc[r] = "statsGet"
    /\ clock' = IF kv = <<>> THEN clock + 1 ELSE clock
    /\ hist' = IF kv = <<>> THEN Tick(hist) ELSE hist
    /\ kv' = <<JsonStringify(getCacheStats(kv, clock'))>>
    /\ Return(r, JsonResponse(StatsView(getCacheStats(kv, clock'))))
    /\ tr' = [tr EXCEPT ![r].end = "view"]
    /\ UNCHANGED <<url, cache, pending>>

\* Lines 162-175: CACHE_STATS.get resolves for /cache-stats.
CacheStatsGet(r) ==
    /\ pc[r] = "statsGet"
    /\ clock' = IF kv = <<>> THEN clock + 1 ELSE clock
    /\ hist' = IF kv = <<>> THEN Tick(hist) ELSE hist
    /\ Return(r, JsonResponse(StatsView(getCacheStats(kv, clock'))))
    /\ tr' = [tr EXCEPT ![r].end = "view"]
    /\ UNCHANGED <<url, cache, kv, pending>>

\* Lines 152-155 and 179-183: the put of resetCacheStats lands.
ResetPut(r) ==
    /\ pc[r] = "resetPut"
    /\ kv' = <<JsonStringify(loc[r].stats[1])>>
    /\ Return(r, JsonResponse([message |-> "Cache statistics reset"]))
    /\ tr' = [tr EXCEPT ![r].end = "reset"]
    /\ hist' = [StatsWrite(hist, "reset", <<>>) EXCEPT !.afterReset =
                   [state |-> "armed", fresh |-> FALSE, sum |-> 0]]
    /\ UNCHANGED <<url, cache, clock, pending>>

\* Lines 188-199: cache.keys() resolves for /cache-entries.
ListLimit == 50
\* A listing that counts what it lists.
EntryListCountsListed(keys) ==
    LET entries == [i \in 1..Len(keys) |->
                       [url |-> keys[i].url, method |-> keys[i].method]]
        listed == SubSeq(entries, 1,
                         IF Len(entries) < ListLimit THEN Len(entries)
                         ELSE ListLimit)
    IN [count |-> Len(listed), entries |-> listed]

EntryList(keys) ==
    LET entries == [i \in 1..Len(keys) |->
                       [url |-> keys[i].url, method |-> keys[i].method]]
    IN [count |-> Len(entries),
        entries |-> SubSeq(entries, 1,
                           IF Len(entries) < ListLimit THEN Len(entries)
                           ELSE ListLimit)]

CacheEntries(r) ==
    /\ pc[r] = "keys"
    /\ Return(r, JsonResponse(EntryList(CacheKeys(cache))))
    /\ tr' = [tr EXCEPT ![r].end = "view"]
    /\ UNCHANGED <<url, cache, kv, clock, pending, hist>>

\* What the Cache Store holds under u (history, read off the entries).
Held(c, u) == {c[i].response : i \in {j \in 1..Len(c) : c[j].key.url = u}}

\* Lines 217-227: cache.match resolves; the handler takes the hit or the miss
\* branch and calls incrementCacheHit / incrementCacheMiss, which runs to the
\* CACHE_STATS.get of getCacheStats.
Match(r) ==
    /\ pc[r] = "match"
    /\ LET response == CacheMatch(cache, url[r]) IN
       /\ loc' = [loc EXCEPT ![r].response = response,
                             ![r].kind = IF response # <<>> THEN "hit" ELSE "miss"]
       /\ hist' = IF response # <<>>
                  THEN [hist EXCEPT !.sinceReset.hit = @ + 1]
                  ELSE [hist EXCEPT !.sinceReset.miss = @ + 1]
    /\ pc' = [pc EXCEPT ![r] = "incGet"]
    /\ tr' = [tr EXCEPT ![r].ops = Append(@, "kv.get"),
                        ![r].found = Held(cache, url[r])]
    /\ UNCHANGED <<url, resp, cache, kv, clock, pending>>

\* An update that counts every lookup as a miss.
IncrementedMissesOnly(kind, stats) == IncrementMisses(stats)

\* incrementCacheMiss without line 148.
IncrementedHitsOnly(kind, stats) ==
    IF kind = "hit" THEN IncrementHits(stats) ELSE stats

\* Lines 141-143 / 147-149: CACHE_STATS.get resolves; the record is parsed (or
\* made up when there is none), the counter incremented and the put issued.

Incremented(kind, stats) ==
    IF kind = "hit" THEN IncrementHits(stats) ELSE IncrementMisses(stats)

IncrementGet(r) ==
    /\ pc[r] = "incGet"
    /\ clock' = IF kv = <<>> THEN clock + 1 ELSE clock
    /\ hist' = IF kv = <<>> THEN Tick(hist) ELSE hist
    /\ loc' = [loc EXCEPT ![r].stats =
                  <<Incremented(loc[r].kind, getCacheStats(kv, clock'))>>]
    /\ pc' = [pc EXCEPT ![r] = "incPut"]
    /\ tr' = [tr EXCEPT ![r].ops = Append(@, "kv.put"), ![r].seen = <<kv>>]
    /\ UNCHANGED <<url, resp, cache, kv, pending>>

\* The hits or misses of a stored value, 0 when there is none (history).
Counter(stored, kind) ==
    IF stored = <<>> THEN 0
    ELSE IF kind = "hit" THEN JsonMember(stored[1], "hits")
    ELSE JsonMember(stored[1], "misses")

\* An update that would increment the record CACHE_STATS holds as it lands.
StatsToStoreFresh(r) == Incremented(loc[r].kind, getCacheStats(kv, clock))

\* Lines 143 / 149: the put carries the record incremented when the get
\* resolved, whatever CACHE_STATS holds by the time it lands.
StatsToStore(r) == loc[r].stats[1]

\* Lines 143 / 149 and what follows the await in fetch: the put lands; a hit
\* returns the cached response (line 223), a miss goes on to the try block.
IncrementPut(r) ==
    /\ pc[r] = "incPut"
    /\ kv' = <<JsonStringify(StatsToStore(r))>>
    /\ hist' = [StatsWrite(hist, loc[r].kind, tr[r].seen) EXCEPT
                   !.written[JsonParse(kv'[1]).lastReset] = @ + 1,
                   !.writtenHits[JsonParse(kv'[1]).lastReset] =
                       IF loc[r].kind = "hit" THEN @ + 1 ELSE @,
                   !.afterReset =
                       IF @.state = "armed"
                       THEN [state |-> "written",
                             fresh |-> tr[r].seen = <<kv>>,
                             sum |-> JsonParse(kv'[1]).hits
                                     + JsonParse(kv'[1]).misses]
                       ELSE @]
    /\ LET counted == Counter(kv', loc[r].kind)
                          = Counter(tr[r].seen[1], loc[r].kind) + 1
       IN IF loc[r].kind = "hit"
          THEN /\ Return(r, loc[r].response[1])
               /\ tr' = [tr EXCEPT ![r].seen = <<>>, ![r].counted = counted,
                                   ![r].end = "hit"]
          ELSE /\ pc' = [pc EXCEPT ![r] = "render"]
               /\ loc' = [loc EXCEPT ![r].theme = Theme(url[r])]
               /\ tr' = [tr EXCEPT ![r].seen = <<>>, ![r].counted = counted,
                                   ![r].ops = Append(@, "launch")]
               /\ UNCHANGED resp
    /\ UNCHANGED <<url, cache, clock, pending>>

\* Lines 235-250 touch nothing but the browser session of this invocation, so
\* the six awaits of the try block are one step of the model: it ends in the
\* catch of line 251 with the call that rejected, or past line 250 with what
\* page.evaluate resolved to.
RenderCalls == <<"launch", "newPage", "goto", "addScriptTag", "evaluate", "close">>

\* The session after call number i of the try block rejected: launch opened
\* none; a later call leaves the one launch opened, which nothing closes; a
\* close that rejects may or may not have closed it.
SessionsAfterFault(i) ==
    IF RenderCalls[i] = "launch" THEN {"none"}
    ELSE IF RenderCalls[i] = "close" THEN {"open", "closed"}
    ELSE {"open"}

\* Lines 251-254.
RenderFault(r) ==
    /\ pc[r] = "render"
    /\ \E i \in 1..Len(RenderCalls) : \E session \in SessionsAfterFault(i) :
          tr' = [tr EXCEPT ![r].session = session, ![r].end = "renderFault"]
    /\ Return(r, TextResponse("Internal error", 500))
    /\ UNCHANGED <<url, cache, kv, clock, pending, hist>>

\* Lines 256-271: the markup is checked, the response built, the cache.put
\* handed to ctx.waitUntil, the response returned.
Render(r) ==
    /\ pc[r] = "render"
    /\ \E svg \in EvaluateResults(loc[r].text, loc[r].theme) :
          IF ~IsSvg(svg)
          THEN /\ Return(r, TextResponse("Failed to render SVG", 500))
               /\ tr' = [tr EXCEPT ![r].session = "closed",
                                   ![r].end = "malformed"]
               /\ UNCHANGED <<pending, hist>>
          ELSE /\ Return(r, SvgResponse(svg))
               /\ pending' = pending \cup
                     {[url |-> url[r], response |-> SvgResponse(svg)]}
               /\ tr' = [tr EXCEPT ![r].session = "closed",
                                   ![r].ops = Append(@, "cache.put"),
                                   ![r].end = "rendered"]
               /\ hist' = [hist EXCEPT !.rendered = @ \cup {url[r]}]
    /\ UNCHANGED <<url, cache, kv, clock>>

\* An awaited store operation outside the try rejects (CACHE_STATS.get or put,
\* cache.match, cache.keys): the exception leaves fetch.
StoreFault(r) ==
    /\ pc[r] \in AwaitsOutsideTry
    /\ Return(r, UncaughtResponse)
    /\ tr' = [tr EXCEPT ![r].seen = <<>>, ![r].end = "storeFault"]
    /\ UNCHANGED <<url, cache, kv, clock, pending, hist>>

\* Line 268: a cache.put held by ctx.waitUntil settles: it lands, or rejects
\* with nobody to see it.
CachePutLands(p) ==
    /\ p \in pending
    /\ pending' = pending \ {p}
    /\ cache' = CachePut(cache, p.url, p.response)
    /\ UNCHANGED <<pc, url, loc, resp, kv, clock, tr, hist>>

CachePutRejects(p) ==
    /\ p \in pending
    /\ pending' = pending \ {p}
    /\ UNCHANGED <<pc, url, loc, resp, cache, kv, clock, tr, hist>>

\* The response has gone out and the invocation is over.
Finish(r) ==
    /\ pc[r] = "done"
    /\ pc' = [pc EXCEPT ![r] = "over"]
    /\ url' = [url EXCEPT ![r] = uOther]
    /\ resp' = [resp EXCEPT ![r] = NoResponse]
    /\ tr' = [tr EXCEPT ![r] = NoTrace]
    /\ UNCHANGED <<loc, cache, kv, clock, pending, hist>>

Next ==
    \/ \E r \in Slots, u \in Urls : Fetch(r, u)
    \/ \E r \in Slots : CacheStatsGet(r)
    \/ \E r \in Slots : ResetPut(r)
    \/ \E r \in Slots : CacheEntries(r)
    \/ \E r \in Slots : Match(r)
    \/ \E r \in Slots : IncrementGet(r)
    \/ \E r \in Slots : IncrementPut(r)
    \/ \E r \in Slots : Render(r)
    \/ \E r \in Slots : RenderFault(r)
    \/ \E r \in Slots : StoreFault(r)
    \/ \E p \in pending : CachePutLands(p)
    \/ \E p \in pending : CachePutRejects(p)
    \/ \E r \in Slots : Finish(r)

Spec == Init /\ [][Next]_vars

\* ---------------------------------------------------------------- claims
Launched(r) == \E i \in 1..Len(tr[r].ops) : tr[r].ops[i] = "launch"

\* C1 as stated: once a render of a url has returned its artifact, no later
\* request for that url invokes the renderer again (each is a cache hit).
C1_LaterRequestsHit == \A r \in Slots : tr[r].later => ~Launched(r)

\* C1, amended: a /svg request whose lookup finds an entry under its url never
\* invokes the renderer, and the response it returns with status 200 is the
\* stored one, byte for byte, which is the output of a render of that url's
\* diagram and theme.
C1_HitServesStored ==
    \A r \in Slots :
        tr[r].found # {} =>
            /\ ~Launched(r)
            /\ pc[r] = "done" /\ resp[r].status = 200 => resp[r] \in tr[r].found
            /\ \A x \in tr[r].found : \E id \in RandomIds :
                   x = SvgResponse(MermaidRender(id, Decode(url[r]).text, Theme(url[r])))

\* A request is served from the entry that the render of another request of
\* the same behaviour stored.
C1_Witness ==
    \E r, q \in Slots :
        /\ tr[q].end = "rendered" /\ tr[r].end = "hit" /\ url[r] = url[q]
        /\ tr[r].found = {resp[q]} /\ resp[r] = resp[q]

\* C2: a /svg request whose renderer failed ended with a 500, issued exactly
\* the lookup, the counter read, the counter write and the renderer call (so
\* no cache.put and no second stats write), and its write stored the miss
\* counter one above the one it had read.
C2_RenderFaultCounted ==
    \A r \in Slots :
        tr[r].end = "renderFault" =>
            /\ pc[r] = "done" /\ resp[r].status = 500
            /\ tr[r].ops = <<"cache.match", "kv.get", "kv.put", "launch">>
            /\ tr[r].counted

\* A call after launch rejected, with the stats record written.
C2_Witness ==
    \E r \in Slots :
        /\ tr[r].end = "renderFault" /\ tr[r].session = "open"
        /\ kv # <<>> /\ Held(cache, url[r]) = {}

\* C3: a /svg request whose mermaid parameter is missing, or is no encoding of
\* a text, has returned a 400 and issued no store or renderer call.
Undecodable(u) ==
    LET compressed == SearchParamsGet(u.query, "mermaid") IN
    IF compressed = <<>> THEN TRUE ELSE Decompress(compressed[1]) = <<>>

C3_DecodeErrorTouchesNothing ==
    \A r \in Slots :
        url[r].path = "/svg" /\ Undecodable(url[r]) =>
            pc[r] = "done" /\ resp[r].status = 400 /\ tr[r].ops = <<>>

\* Both kinds of decode error have been answered, the stores untouched.
C3_Witness ==
    \E r, q \in Slots :
        /\ url[r] = uMissing /\ url[q] = uInvalid
        /\ resp[r].status = 400 /\ resp[q].status = 400
        /\ kv = <<>> /\ cache = <<>>

\* No counter update is in flight: no invocation is between its lookup and the
\* landing of its CACHE_STATS.put.
Quiescent == \A r \in Slots : pc[r] \notin {"incGet", "incPut"}
Stored == JsonParse(kv[1])

\* C4 as stated: whenever no counter update is in flight, the stored hits +
\* misses is the number of counter updates (one per lookup) written with the
\* record's lastReset.
C4_SumIsLookups ==
    Quiescent /\ kv # <<>> =>
        Stored.hits + Stored.misses = hist.written[Stored.lastReset]

\* C4, amended: the stored hits + misses never exceeds the number of counter
\* updates (one per lookup) written with the record's lastReset.
C4_SumAtMostLookups ==
    kv # <<>> => Stored.hits + Stored.misses <= hist.written[Stored.lastReset]

\* Hits and misses have both been counted, none lost.
C4_Witness ==
    /\ Quiescent /\ kv # <<>>
    /\ Stored.hits >= 1 /\ Stored.misses >= 1
    /\ Stored.hits + Stored.misses = hist.written[Stored.lastReset]

\* The last two writes to CACHE_STATS are updates of the same counter that
\* had read the same record.
TwoUpdatesOfOneRecord ==
    /\ Len(hist.lastTwo) = 2
    /\ hist.lastTwo[1].kind \in {"hit", "miss"}
    /\ hist.lastTwo[2].kind = hist.lastTwo[1].kind
    /\ hist.lastTwo[2].seen = hist.lastTwo[1].seen

\* C5: when two /svg requests have read the same stats record and both written
\* it back with the same counter incremented, the stored counter is one above
\* the one they read: two increments performed, one kept.
C5_LostUpdate ==
    TwoUpdatesOfOneRecord =>
        Counter(kv, hist.lastTwo[1].kind)
            = Counter(hist.lastTwo[1].seen[1], hist.lastTwo[1].kind) + 1

\* The interleaving has happened on a stored record: both requests answered,
\* two misses performed on top of the one stored, two stored.
C5_Witness ==
    /\ TwoUpdatesOfOneRecord /\ hist.lastTwo[1].kind = "miss"
    /\ hist.lastTwo[1].seen = << <<JsonStringify(WarmStats)>> >>
    /\ Stored.misses = 2 /\ hist.written[Stored.lastReset] = 3

\* C6 as stated: after a reset the record holds zeros until the next counter
\* update, and that update stores a counter of 1 and nothing else.
C6_ResetRestartsAtOne ==
    /\ hist.afterReset.state = "armed" => Stored.hits = 0 /\ Stored.misses = 0
    /\ hist.afterReset.state = "written" => hist.afterReset.sum = 1

\* C6, amended: after a reset the record holds zeros until the next counter
\* update, and that update stores a counter of 1 and nothing else when it had
\* read the record the reset wrote.
C6_ResetRestartsAtOneIfRead ==
    /\ hist.afterReset.state = "armed" => Stored.hits = 0 /\ Stored.misses = 0
    /\ hist.afterReset.state = "written" /\ hist.afterReset.fresh =>
           hist.afterReset.sum = 1

\* A reset discarded counts and the next update, which read its record, was
\* written.
C6_Witness ==
    /\ hist.afterReset.state = "written" /\ hist.afterReset.fresh
    /\ \E T \in 1..Len(hist.written) :
           T < Stored.lastReset /\ hist.written[T] >= 1
    /\ Stored.hits + Stored.misses = 1

\* C7: a /svg request that decodes ends with an artifact unless its render
\* failed or produced no well-formed markup: no failure of the Stats Store or
\* the Cache Store reaches the caller.
C7_StoreFaultsInvisible ==
    \A r \in Slots :
        url[r].path = "/svg" /\ ~Undecodable(url[r]) /\ pc[r] = "done" =>
            \/ resp[r].status = 200
            \/ tr[r].end \in {"renderFault", "malformed"}

\* C8: every response of the /svg path is a 400, a 500, or a 200 whose body
\* begins with <svg, and every response the Cache Store holds or is being
\* given begins with <svg.
C8_OnlyWellFormed ==
    /\ \A r \in Slots :
          url[r].path = "/svg" /\ pc[r] = "done" =>
              \/ resp[r].status \in {400, 500}
              \/ resp[r].status = 200 /\ StartsWith(resp[r].body, SvgTag)
    /\ \A i \in 1..Len(cache) : StartsWith(cache[i].response.body, SvgTag)
    /\ \A p \in pending : StartsWith(p.response.body, SvgTag)

\* The renderer produced markup that fails the check: a 500, nothing stored.
C8_Witness ==
    \E r \in Slots :
        /\ tr[r].end = "malformed" /\ resp[r].status = 500
        /\ cache = <<>> /\ pending = {}

\* Slot r returns its artifact in a step that writes no counter update.
ReturnsBeforeStatsWrite(r) ==
    /\ Next
    /\ pc'[r] = "done" /\ resp'[r].status = 200
    /\ hist'.written = hist.written

\* C9: the handler can return the response of a cache hit while the stats
\* write of that request has not landed.
C9_ResponseBeforeStatsWrite ==
    \A r \in Slots :
        pc[r] = "incPut" /\ loc[r].kind = "hit" => ENABLED ReturnsBeforeStatsWrite(r)

\* ---------------------------------------------------------------- listing
\* The listing endpoint over a Cache Store of n entries, n up to MaxKeys.
EntryUrl(i) == Url("/svg", << <<"mermaid", "cA">>, <<"n", i>> >>)
CacheOf(n) ==
    [i \in 1..n |->
        [key |-> CacheKey(EntryUrl(i)),
         response |-> SvgResponse(MermaidRender("0", Decode(uA).text, Theme(uA)))]]

InitEntries ==
    /\ pc = [r \in Slots |-> "idle"]
    /\ url = [r \in Slots |-> uOther]
    /\ loc = [r \in Slots |-> NoLocals]
    /\ resp = [r \in Slots |-> NoResponse]
    /\ pending = {}
    /\ tr = [r \in Slots |-> NoTrace]
    /\ \E n \in 0..MaxKeys : cache = CacheOf(n)
    /\ kv = <<>>
    /\ clock = 0
    /\ hist = InitHist

NextEntries ==
    \/ \E r \in Slots : Fetch(r, uEntries)
    \/ \E r \in Slots : CacheEntries(r)
    \/ \E r \in Slots : StoreFault(r)
    \/ \E r \in Slots : Finish(r)

SpecEntries == InitEntries /\ [][NextEntries]_vars

Min(a, b) == IF a < b THEN a ELSE b

\* C10: the response of /cache-entries carries count = the number of keys of
\* the Cache Store, and entries = its first min(count, 50) keys in enumeration
\* order, each as {url, method}.
C10_CountUncappedListCapped ==
    \A r \in Slots :
        url[r] = uEntries /\ pc[r] = "done" /\ resp[r].status = 200 =>
            LET listing == resp[r].body[1] IN
            /\ listing.count = Len(cache)
            /\ Len(listing.entries) = Min(Len(cache), 50)
            /\ \A i \in 1..Len(listing.entries) :
                  listing.entries[i] = [url |-> cache[i].key.url, method |-> "GET"]

\* 73 keys: count 73 and the first 50 listed.
C10_Witness ==
    \E r \in Slots :
        /\ url[r] = uEntries /\ pc[r] = "done" /\ resp[r].status = 200
        /\ Len(cache) = 73
        /\ resp[r].body[1].count = 73 /\ Len(resp[r].body[1].entries) = 50

\* None: count 0 and an empty list.
C10_WitnessNone ==
    \E r \in Slots :
        /\ url[r] = uEntries /\ pc[r] = "done" /\ resp[r].status = 200
        /\ resp[r].body[1] = [count |-> 0, entries |-> <<>>]

\* ---------------------------------------------------------------- stats view
\* The stats endpoint over a Stats Store holding no record, or a record of any
\* counters up to MaxCount.
InitStats ==
    /\ pc = [r \in Slots |-> "idle"]
    /\ url = [r \in Slots |-> uOther]
    /\ loc = [r \in Slots |-> NoLocals]
    /\ resp = [r \in Slots |-> NoResponse]
    /\ pending = {}
    /\ tr = [r \in Slots |-> NoTrace]
    /\ cache = <<>>
    /\ \/ kv = <<>> /\ clock = 0 /\ hist = InitHist
       \/ \E hits, misses \in 0..MaxCount :
             /\ kv = <<JsonStringify([hits |-> hits, misses |-> misses,
                                      lastReset |-> 1])>>
             /\ clock = 1
             /\ hist = [InitHist EXCEPT !.written = <<hits + misses>>,
                                        !.writtenHits = <<hits>>]

NextStats ==
    \/ \E r \in Slots : Fetch(r, uStats)
    \/ \E r \in Slots : CacheStatsGet(r)
    \/ \E r \in Slots : StoreFault(r)
    \/ \E r \in Slots : Finish(r)

SpecStats == InitStats /\ [][NextStats]_vars

\* The number a string of decimal digits writes, the point skipped.
DigitValue(c) == CHOOSE d \in 0..9 : Digit(d) = c
RECURSIVE Hundredths(_)
Hundredths(str) ==
    IF str = <<>> THEN 0
    ELSE IF str[Len(str)] = "." THEN Hundredths(SubSeq(str, 1, Len(str) - 1))
    ELSE 10 * Hundredths(SubSeq(str, 1, Len(str) - 1)) + DigitValue(str[Len(str)])

\* What /cache-stats answers from: the stored counters, zeros when none.
StoredCounters == IF kv = <<>> THEN [hits |-> 0, misses |-> 0] ELSE Stored

\* C11: the body of /cache-stats carries total = hits + misses and hitRate =
\* digits, a point, two digits and %, the number of hundredths n it writes the
\* nearest to 100 * hits / total (the larger on a tie); with total = 0 it is
\* "0.00%".
C11_TotalAndHitRate ==
    \A r \in Slots :
        url[r] = uStats /\ pc[r] = "done" /\ resp[r].status = 200 =>
            LET view == resp[r].body[1]
                hits == StoredCounters.hits
                total == hits + StoredCounters.misses
                rate == view.hitRate
                number == SubSeq(rate, 1, Len(rate) - 1)
                n == Hundredths(number)
            IN /\ view.total = total
               /\ view.hits = hits
               /\ Len(rate) >= 5 /\ rate[Len(rate)] = "%" /\ rate[Len(rate) - 3] = "."
               /\ \A i \in (1..Len(number)) \ {Len(number) - 2} :
                     \E d \in 0..9 : number[i] = Digit(d)
               /\ total = 0 => rate = <<"0", ".", "0", "0", "%">>
               /\ total > 0 =>
                     /\ 2 * (n * total - 10000 * hits) <= total
                     /\ 2 * (10000 * hits - n * total) < total

\* 45 hits and 12 misses: total 57 and "78.95%".
C11_Witness ==
    \E r \in Slots :
        /\ url[r] = uStats /\ pc[r] = "done" /\ resp[r].status = 200
        /\ StoredCounters = [hits |-> 45, misses |-> 12, lastReset |-> 1]
        /\ resp[r].body[1].total = 57
        /\ resp[r].body[1].hitRate = <<"7", "8", ".", "9", "5", "%">>
        /\ resp[r].body[1].efficiency
              = <<"4", "5", "/", "5", "7", " requests served from cache">>

\* No record: zeros and "0.00%".
C11_WitnessNone ==
    \E r \in Slots :
        /\ url[r] = uStats /\ pc[r] = "done" /\ resp[r].status = 200
        /\ kv = <<>>
        /\ resp[r].body[1].total = 0
        /\ resp[r].body[1].hitRate = <<"0", ".", "0", "0", "%">>
        /\ resp[r].body[1].efficiency = <<"No requests yet">>

\* ---------------------------------------------------------------- ordering
\* The store and renderer calls of a /svg request, in the order of the code.
SvgCalls == <<"cache.match", "kv.get", "kv.put", "launch", "cache.put">>
IsPrefix(a, b) == Len(a) <= Len(b) /\ SubSeq(b, 1, Len(a)) = a

\* C12: a /svg request issues its calls in the order lookup, counter read,
\* counter write, renderer, each after the one before resolved: it has decoded
\* before it looks up, it has written no counter while the lookup or the
\* counter update is pending, and once the renderer is invoked its write of
\* the miss counter, one above the one it read, has landed.
C12_StrictOrder ==
    \A r \in Slots :
        url[r].path = "/svg" =>
            /\ IsPrefix(tr[r].ops, SvgCalls)
            /\ tr[r].ops # <<>> => ~Undecodable(url[r])
            /\ pc[r] \in {"match", "incGet", "incPut"} => ~tr[r].counted
            /\ pc[r] = "match" => tr[r].ops = <<"cache.match">>
            /\ Launched(r) => tr[r].counted /\ tr[r].found = {}

\* The renderer is running for a miss whose counter write is what the Stats
\* Store holds.
C12_Witness ==
    \E r \in Slots :
        /\ pc[r] = "render" /\ tr[r].counted
        /\ tr[r].ops = <<"cache.match", "kv.get", "kv.put", "launch">>
        /\ kv # <<>> /\ Stored.misses = 2 /\ hist.written[Stored.lastReset] = 2

\* ---------------------------------------------------------------- cache write
\* The /svg path on a runtime that runs every task held by ctx.waitUntil to
\* completion and a Cache Store that accepts every write.
Puts ==
    {[url |-> uA, response |-> SvgResponse(MermaidRender(id, Decode(uA).text, Theme(uA)))] :
        id \in RandomIds}

NextAccepting ==
    \/ \E r \in Slots : Fetch(r, uA)
    \/ \E r \in Slots : Match(r)
    \/ \E r \in Slots : IncrementGet(r)
    \/ \E r \in Slots : IncrementPut(r)
    \/ \E r \in Slots : Render(r)
    \/ \E r \in Slots : RenderFault(r)
    \/ \E r \in Slots : StoreFault(r)
    \/ \E p \in pending : CachePutLands(p)
    \/ \E r \in Slots : Finish(r)

SpecAccepting ==
    Init /\ [][NextAccepting]_vars /\ \A p \in Puts : WF_vars(CachePutLands(p))

\* C13: a miss whose render produced well-formed markup has returned the
\* artifact with the cache.put of that response, keyed by the request url,
\* issued and not awaited; and every cache.put issued eventually lands, the
\* entry of its url present.
C13_PutIssuedAndLands ==
    /\ [](\A r \in Slots :
             tr[r].end = "rendered" =>
                 /\ pc[r] = "done" /\ resp[r] \in {p.response : p \in Puts}
                 /\ tr[r].ops[Len(tr[r].ops)] = "cache.put"
                 /\ \/ [url |-> url[r], response |-> resp[r]] \in pending
                    \/ Held(cache, url[r]) # {})
    /\ [](pending \subseteq Puts)
    /\ \A p \in Puts :
          (p \in pending) ~> (p \notin pending /\ Held(cache, p.url) # {})

\* The handler has returned the artifact and its cache.put has landed since.
C13_Witness ==
    \E r \in Slots :
        /\ pc[r] = "done" /\ tr[r].end = "rendered"
        /\ pending = {} /\ Held(cache, url[r]) = {resp[r]}

\* The handler has returned the artifact, its cache.put still to land.
C13_WitnessPending ==
    \E r \in Slots :
        /\ pc[r] = "done" /\ tr[r].end = "rendered"
        /\ pending = {[url |-> url[r], response |-> resp[r]]} /\ cache = <<>>

\* ---------------------------------------------------------------- overwriting
\* C14: the response stored under a url never changes while the entry exists:
\* no step replaces the entry of a url by another response.
C14_NeverOverwritten ==
    [][\A u \in Urls : Held(cache, u) # {} => Held(cache', u) = Held(cache, u)]_vars

\* ---------------------------------------------------------------- cache key
\* The /svg path over urls that differ as strings and decode to the same
\* diagram and theme, the Cache Store holding a render of uA, the Stats Store
\* and the renderer answering every call.
uALight == Url("/svg", << <<"mermaid", "cA">>, <<"theme", "light">> >>)
uLightA == Url("/svg", << <<"theme", "light">>, <<"mermaid", "cA">> >>)
KeyUrls == {uA, uALight, uLightA}

InitKeys ==
    /\ pc = [r \in Slots |-> "idle"]
    /\ url = [r \in Slots |-> uOther]
    /\ loc = [r \in Slots |-> NoLocals]
    /\ resp = [r \in Slots |-> NoResponse]
    /\ pending = {}
    /\ tr = [r \in Slots |-> NoTrace]
    /\ cache = WarmCache
    /\ kv = <<>>
    /\ clock = 0
    /\ hist = [InitHist EXCEPT !.rendered = {uA}]

NextKeys ==
    \/ \E r \in Slots, u \in KeyUrls : Fetch(r, u)
    \/ \E r \in Slots : Match(r)
    \/ \E r \in Slots : IncrementGet(r)
    \/ \E r \in Slots : IncrementPut(r)
    \/ \E r \in Slots : Render(r)
    \/ \E p \in pending : CachePutLands(p)
    \/ \E p \in pending : CachePutRejects(p)
    \/ \E r \in Slots : Finish(r)

SpecKeys == InitKeys /\ [][NextKeys]_vars

\* C15: entries are stored under urls that were rendered and no other; a
\* request takes the hit branch exactly when the Cache Store held an entry
\* under its own url string, and is then answered with that entry.
C15_LiteralKey ==
    /\ \A i \in 1..Len(cache) : cache[i].key.url \in hist.rendered
    /\ \A p \in pending : p.url \in hist.rendered
    /\ \A r \in Slots :
          /\ pc[r] \in {"incGet", "incPut"} =>
                (loc[r].kind = "hit") = (tr[r].found # {})
          /\ Launched(r) => tr[r].found = {}
          /\ tr[r].end = "hit" => resp[r] \in tr[r].found
          /\ tr[r].end = "rendered" => url[r] \in hist.rendered

\* With uA's entry stored, a request for the same diagram under another url
\* string has missed and been rendered, and only uA's entry is stored.
C15_Witness ==
    \E r \in Slots :
        /\ url[r] \in {uALight, uLightA} /\ tr[r].end = "rendered"
        /\ Held(cache, uA) # {} /\ Len(cache) = 1

\* ---------------------------------------------------------------- hit
\* The record a counter update read: the stored one, or the one made up at
\* the reading `now` of the clock when there was none.
SeenRecord(r, now) == getCacheStats(tr[r].seen[1], now)

\* C16: a request that took the hit branch issues the lookup, one counter read
\* and one counter write and nothing else (no renderer call, no cache.put);
\* the record it writes is the one it read with hits one higher and misses as
\* read; and it returns the stored response, body and headers as stored.
C16_HitFrame ==
    \A r \in Slots :
        /\ pc[r] = "incPut" /\ loc[r].kind = "hit" =>
              /\ tr[r].ops = <<"cache.match", "kv.get", "kv.put">>
              /\ \E now \in 0..clock :
                    loc[r].stats[1] =
                        [SeenRecord(r, now) EXCEPT !.hits = @ + 1]
        /\ tr[r].end = "hit" =>
              /\ tr[r].ops = <<"cache.match", "kv.get", "kv.put">>
              /\ pc[r] = "done" /\ resp[r] \in tr[r].found
              /\ tr[r].counted

\* A hit on the stored render of uA has been answered and counted, the Cache
\* Store as it was.
C16_Witness ==
    \E r \in Slots :
        /\ tr[r].end = "hit" /\ resp[r] = WarmCache[1].response
        /\ cache = WarmCache /\ pending = {}
        /\ kv # <<>> /\ Stored.hits = 1 /\ Stored.misses = 1

\* ---------------------------------------------------------------- read-only
\* Slot r takes a step of a /cache-stats or /cache-entries request: the
\* request arrives, or its pending call settles.
ReadOnlyStep(r) ==
    \/ pc[r] = "idle" /\ pc'[r] # "idle" /\ url'[r] \in {uStats, uEntries}
    \/ pc[r] \in {"statsGet", "keys"} /\ pc'[r] # pc[r]

\* C17: no step of a /cache-stats or /cache-entries request changes the Stats
\* Store or the Cache Store or issues a write to either; /cache-stats issues
\* the one read of the Stats Store, /cache-entries the one listing of keys.
C17_ReadOnly ==
    /\ [][\A r \in Slots :
             ReadOnlyStep(r) => kv' = kv /\ cache' = cache /\ pending' = pending]_vars
    /\ [](\A r \in Slots :
             /\ url[r] = uStats => tr[r].ops = <<"kv.get">>
             /\ url[r] = uEntries => tr[r].ops = <<"cache.keys">>)

\* /cache-stats has answered zeros with no record stored, and none is stored.
C17_Witness ==
    \E r \in Slots :
        /\ url[r] = uStats /\ pc[r] = "done" /\ resp[r].status = 200
        /\ resp[r].body[1].total = 0 /\ resp[r].body[1].lastReset = clock
        /\ kv = <<>> /\ clock > 0

\* ---------------------------------------------------------------- over-counting
\* C18 as stated, for a record stamped by the latest reset: its hits and its
\* misses are at most the hit and the miss updates started after that reset
\* read the clock.
C18_AtMostStartedSince ==
    kv # <<>> /\ Stored.lastReset = hist.sinceReset.T =>
        /\ Stored.hits <= hist.sinceReset.hit
        /\ Stored.misses <= hist.sinceReset.miss

\* C18, amended: the stored hits and misses are not negative, and are at most
\* the hit updates and the miss updates written with the record's lastReset.
C18_AtMostWritten ==
    kv # <<>> =>
        /\ Stored.hits >= 0 /\ Stored.misses >= 0
        /\ Stored.hits <= hist.writtenHits[Stored.lastReset]
        /\ Stored.misses
              <= hist.written[Stored.lastReset] - hist.writtenHits[Stored.lastReset]

\* A hit started before a reset has been counted in the record of that reset;
\* no hit has started since.
C18_Witness ==
    /\ kv # <<>> /\ Stored.lastReset = hist.sinceReset.T
    /\ hist.sinceReset.hit = 0
    /\ Stored.hits = 1 /\ hist.writtenHits[Stored.lastReset] = 1

\* ---------------------------------------------------------------- sessions
\* C19: a request that has returned its response has no browser session open:
\* the one it launched, if any, is closed.
C19_SessionClosedOnReturn ==
    \A r \in Slots : pc[r] = "done" => tr[r].session # "open"

====
